---- MODULE Spec2Model ----
(***************************************************************************)
(* DetectaBias (src/detectabias.py): a Streamlit script that extracts the  *)
(* text of an uploaded PDF, sends it to Gemini, parses the JSON answer     *)
(* (parse_and_display_results) and renders the report, with a "save as     *)
(* PDF" button that emits a delayed window.print.                          *)
(*                                                                         *)
(* One step of the model is one run of the script (a Streamlit render      *)
(* cycle), triggered by one user interaction.                              *)
(*                                                                         *)
(* Text is a sequence of atoms.  The structural characters of JSON, the    *)
(* quote, the backslash, the blank, the newline and the decimal digits are *)
(* atoms of their own; a run of letters is one atom ("gender", "tipo").    *)
(* After a backslash the texts drawn hold a quote, a backslash or the atom *)
(* "n" of the newline escape.                                              *)
(***************************************************************************)
EXTENDS Integers, Sequences, FiniteSets, TLC

LBRACE == "{"
RBRACE == "}"
LBRACK == "["
RBRACK == "]"
COLON  == ":"
COMMA  == ","
QUOTE  == "\""
BSLASH == "\\"
SP     == " "
NL     == "\n"

Whitespace == {SP, NL}
Digits == {"0", "1", "2", "3", "4", "5", "6", "7", "8", "9"}

DigitVal(c) ==
    CASE c = "0" -> 0 [] c = "1" -> 1 [] c = "2" -> 2 [] c = "3" -> 3
      [] c = "4" -> 4 [] c = "5" -> 5 [] c = "6" -> 6 [] c = "7" -> 7
      [] c = "8" -> 8 [] c = "9" -> 9

DigitOf(n) ==
    CASE n = 0 -> "0" [] n = 1 -> "1" [] n = 2 -> "2" [] n = 3 -> "3"
      [] n = 4 -> "4" [] n = 5 -> "5" [] n = 6 -> "6" [] n = 7 -> "7"
      [] n = 8 -> "8" [] n = 9 -> "9"

(***************************************************************************)
(* Python values.  Every value carries its type tag t; a dict keeps its    *)
(* items in insertion order as a sequence of [k, val].                     *)
(***************************************************************************)
None      == [t |-> "none", v |-> <<>>]
Str(s)    == [t |-> "str",  v |-> s]
Num(n)    == [t |-> "num",  v |-> n]
Bool(b)   == [t |-> "bool", v |-> b]
Lst(xs)   == [t |-> "list", v |-> xs]
Obj(kvs)  == [t |-> "obj",  v |-> kvs]

IsStr(x)  == x.t = "str"
IsObj(x)  == x.t = "obj"
IsList(x) == x.t = "list"

\* dict.__contains__
HasKey(d, k) == \E i \in 1..Len(d.v) : d.v[i].k = k

\* dict[k] for a key that is present
Item(d, k) == d.v[CHOOSE i \in 1..Len(d.v) : d.v[i].k = k].val

\* dict.get(k, default)
Get(d, k, default) == IF HasKey(d, k) THEN Item(d, k) ELSE default

\* dict[k] = val while the decoder builds the dict: a repeated key keeps its
\* place and takes the later value.
Put(kvs, k, val) ==
    IF \E i \in 1..Len(kvs) : kvs[i].k = k
    THEN [i \in 1..Len(kvs) |->
             IF kvs[i].k = k THEN [k |-> k, val |-> val] ELSE kvs[i]]
    ELSE Append(kvs, [k |-> k, val |-> val])

(***************************************************************************)
(* json.loads: the strict decoder of the Python standard library, on the   *)
(* atoms above.  A result is [ok, val, end]: end is the index after the    *)
(* value.                                                                  *)
(***************************************************************************)
Fail == [ok |-> FALSE, val |-> None, end |-> 0]
Done(val, end) == [ok |-> TRUE, val |-> val, end |-> end]

RECURSIVE SkipWs(_, _)
SkipWs(s, i) ==
    IF i <= Len(s) /\ s[i] \in Whitespace THEN SkipWs(s, i + 1) ELSE i

\* scanstring, strict: i is the index of the next character of the literal,
\* acc what is decoded so far.  An unescaped quote ends the literal; a
\* control character or the end of the text inside it is an error.
RECURSIVE ScanString(_, _, _)
ScanString(s, i, acc) ==
    IF i > Len(s) THEN Fail
    ELSE IF s[i] = QUOTE THEN Done(Str(acc), i + 1)
    ELSE IF s[i] = BSLASH
         THEN IF i + 1 <= Len(s) /\ s[i + 1] \in {QUOTE, BSLASH}
              THEN ScanString(s, i + 2, Append(acc, s[i + 1]))
              ELSE IF i + 1 <= Len(s) /\ s[i + 1] = "n"
              THEN ScanString(s, i + 2, Append(acc, NL))
              ELSE Fail
    ELSE IF s[i] = NL THEN Fail
    ELSE ScanString(s, i + 1, Append(acc, s[i]))

\* the digits of an integer literal from i on: 0, or [1-9][0-9]*
RECURSIVE ScanDigits(_, _, _)
ScanDigits(s, i, acc) ==
    IF i <= Len(s) /\ s[i] \in Digits
    THEN ScanDigits(s, i + 1, 10 * acc + DigitVal(s[i]))
    ELSE Done(Num(acc), i)

ScanNumber(s, i) ==
    IF s[i] = "0" THEN Done(Num(0), i + 1) ELSE ScanDigits(s, i, 0)

RECURSIVE ScanOnce(_, _)
RECURSIVE ScanMembers(_, _, _)
RECURSIVE ScanElements(_, _, _)

\* JSONObject after "{" or after ",": i is at the quote of a key.
ScanMembers(s, i, kvs) ==
    IF i > Len(s) \/ s[i] # QUOTE THEN Fail
    ELSE LET key == ScanString(s, i + 1, <<>>) IN
         IF ~key.ok THEN Fail
         ELSE LET c == SkipWs(s, key.end) IN
              IF c > Len(s) \/ s[c] # COLON THEN Fail
              ELSE LET val == ScanOnce(s, SkipWs(s, c + 1)) IN
                   IF ~val.ok THEN Fail
                   ELSE LET e == SkipWs(s, val.end)
                            kvs2 == Put(kvs, key.val.v, val.val)
                        IN  IF e > Len(s) THEN Fail
                            ELSE IF s[e] = RBRACE THEN Done(Obj(kvs2), e + 1)
                            ELSE IF s[e] = COMMA
                                 THEN ScanMembers(s, SkipWs(s, e + 1), kvs2)
                            ELSE Fail

\* JSONArray: i is at the first character of an element.
ScanElements(s, i, xs) ==
    LET val == ScanOnce(s, i) IN
    IF ~val.ok THEN Fail
    ELSE LET e == SkipWs(s, val.end)
             xs2 == Append(xs, val.val)
         IN  IF e > Len(s) THEN Fail
             ELSE IF s[e] = RBRACK THEN Done(Lst(xs2), e + 1)
             ELSE IF s[e] = COMMA THEN ScanElements(s, SkipWs(s, e + 1), xs2)
             ELSE Fail

\* scan_once: the value that starts exactly at i
ScanOnce(s, i) ==
    IF i > Len(s) THEN Fail
    ELSE IF s[i] = QUOTE THEN ScanString(s, i + 1, <<>>)
    ELSE IF s[i] = LBRACE
         THEN LET j == SkipWs(s, i + 1) IN
              IF j <= Len(s) /\ s[j] = RBRACE THEN Done(Obj(<<>>), j + 1)
              ELSE ScanMembers(s, j, <<>>)
    ELSE IF s[i] = LBRACK
         THEN LET j == SkipWs(s, i + 1) IN
              IF j <= Len(s) /\ s[j] = RBRACK THEN Done(Lst(<<>>), j + 1)
              ELSE ScanElements(s, j, <<>>)
    ELSE IF s[i] = "null" THEN Done(None, i + 1)
    ELSE IF s[i] = "true" THEN Done(Bool(TRUE), i + 1)
    ELSE IF s[i] = "false" THEN Done(Bool(FALSE), i + 1)
    ELSE IF s[i] \in Digits THEN ScanNumber(s, i)
    ELSE Fail

\* decode after raw_decode gave r: only blanks may follow ("Extra data")
Decoded(s, r) ==
    IF r.ok /\ SkipWs(s, r.end) = Len(s) + 1
    THEN [ok |-> TRUE, val |-> r.val]
    ELSE [ok |-> FALSE, val |-> None]

\* json.loads(s): one value, blanks around it, nothing else
JsonLoads(s) == Decoded(s, ScanOnce(s, SkipWs(s, 1)))

(***************************************************************************)
(* re.search(r'\{.*\}', s, re.DOTALL): the leftmost "{" that has a "}"     *)
(* after it, up to the last "}" of the text (the star is greedy and the    *)
(* dot matches newlines).                                                  *)
(***************************************************************************)
SetMin(S) == CHOOSE x \in S : \A y \in S : x <= y
SetMax(S) == CHOOSE x \in S : \A y \in S : x >= y

BraceStarts(s) ==
    {i \in 1..Len(s) : s[i] = LBRACE /\ \E j \in (i + 1)..Len(s) : s[j] = RBRACE}

\* the first "}" after the first "{": what a lazy star would match
SearchBracesLazy(s) ==
    IF BraceStarts(s) = {} THEN [found |-> FALSE, group |-> <<>>]
    ELSE LET i == SetMin(BraceStarts(s))
             j == SetMin({k \in (i + 1)..Len(s) : s[k] = RBRACE})
         IN  [found |-> TRUE, group |-> SubSeq(s, i, j)]

SearchBraces(s) ==
    IF BraceStarts(s) = {} THEN [found |-> FALSE, group |-> <<>>]
    ELSE LET i == SetMin(BraceStarts(s))
             j == SetMax({k \in (i + 1)..Len(s) : s[k] = RBRACE})
         IN  [found |-> TRUE, group |-> SubSeq(s, i, j)]

(***************************************************************************)
(* The answer the prompt asks for (the model of the prompt, lines 85-103): *)
(* a JSON text of one object.  Encode writes a value the way a JSON writer *)
(* does: quotes, backslashes and newlines inside a string are escaped.     *)
(***************************************************************************)
RECURSIVE EscapeStr(_)
EscapeStr(s) ==
    IF s = <<>> THEN <<>>
    ELSE (IF Head(s) \in {QUOTE, BSLASH} THEN <<BSLASH, Head(s)>>
          ELSE IF Head(s) = NL THEN <<BSLASH, "n">>
          ELSE <<Head(s)>>)
         \o EscapeStr(Tail(s))

EncodeStr(s) == <<QUOTE>> \o EscapeStr(s) \o <<QUOTE>>

RECURSIVE EncodeNat(_)
EncodeNat(n) ==
    IF n < 10 THEN <<DigitOf(n)>> ELSE EncodeNat(n \div 10) \o <<DigitOf(n % 10)>>

RECURSIVE Encode(_)
RECURSIVE EncodeItems(_)
RECURSIVE EncodeMembers(_)

EncodeItems(xs) ==
    IF xs = <<>> THEN <<>>
    ELSE Encode(Head(xs))
         \o (IF Len(xs) > 1 THEN <<COMMA, SP>> ELSE <<>>) \o EncodeItems(Tail(xs))

EncodeMembers(kvs) ==
    IF kvs = <<>> THEN <<>>
    ELSE EncodeStr(Head(kvs).k) \o <<COLON, SP>> \o Encode(Head(kvs).val)
         \o (IF Len(kvs) > 1 THEN <<COMMA, SP>> ELSE <<>>) \o EncodeMembers(Tail(kvs))

Encode(x) ==
    CASE x.t = "str"  -> EncodeStr(x.v)
      [] x.t = "num"  -> EncodeNat(x.v)
      [] x.t = "bool" -> IF x.v THEN <<"true">> ELSE <<"false">>
      [] x.t = "none" -> <<"null">>
      [] x.t = "list" -> <<LBRACK>> \o EncodeItems(x.v) \o <<RBRACK>>
      [] x.t = "obj"  -> <<LBRACE>> \o EncodeMembers(x.v) \o <<RBRACE>>

\* the same text with the strings left unescaped: the corrupt
\* JSON the prompt's item 7 warns about
RECURSIVE EncodeUnescaped(_)
RECURSIVE EncodeMembersUnescaped(_)
EncodeMembersUnescaped(kvs) ==
    IF kvs = <<>> THEN <<>>
    ELSE <<QUOTE>> \o Head(kvs).k \o <<QUOTE, COLON, SP>>
         \o EncodeUnescaped(Head(kvs).val)
         \o (IF Len(kvs) > 1 THEN <<COMMA, SP>> ELSE <<>>)
         \o EncodeMembersUnescaped(Tail(kvs))
EncodeUnescaped(x) ==
    CASE x.t = "str" -> <<QUOTE>> \o x.v \o <<QUOTE>>
      [] x.t = "obj" -> <<LBRACE>> \o EncodeMembersUnescaped(x.v) \o <<RBRACE>>
      [] OTHER -> Encode(x)

(***************************************************************************)
(* Python string and truth helpers used by the report.                     *)
(***************************************************************************)
\* bool(x)
Truthy(x) ==
    CASE x.t = "none" -> FALSE
      [] x.t = "bool" -> x.v
      [] x.t = "num"  -> x.v # 0
      [] OTHER        -> x.v # <<>>

\* a tipo kept whole: what the tally would count without the split
NoSplit(s) == <<s>>

\* str.split(','): the pieces between the commas, empty pieces included
RECURSIVE SplitComma(_)
SplitComma(s) ==
    IF \A i \in 1..Len(s) : s[i] # COMMA THEN <<s>>
    ELSE LET i == SetMin({k \in 1..Len(s) : s[k] = COMMA})
         IN  <<SubSeq(s, 1, i - 1)>> \o SplitComma(SubSeq(s, i + 1, Len(s)))

\* str.strip()
RECURSIVE Strip(_)
Strip(s) ==
    IF s = <<>> THEN s
    ELSE IF Head(s) \in Whitespace THEN Strip(Tail(s))
    ELSE IF s[Len(s)] \in Whitespace THEN Strip(SubSeq(s, 1, Len(s) - 1))
    ELSE s

\* str.capitalize() on the labels of the prompt: the first letter in upper
\* case (the atoms drawn are in lower case already)
UpperFirst(a) ==
    CASE a = "gender" -> "Gender"
      [] a = "moral"  -> "Moral"
      [] a = "racial" -> "Racial"
      [] OTHER        -> a
Capitalize(s) == IF s = <<>> THEN s ELSE <<UpperFirst(Head(s))>> \o Tail(s)

Text(a) == Str(<<a>>)
K(name) == <<name>>

\* one element on the page: the Streamlit call and its body
El(w, body) == [w |-> w, body |-> body]

(***************************************************************************)
(* parse_and_display_results, lines 148-217: the report.  The result is    *)
(* [raised, page, tally]: raised when a statement of the try block throws, *)
(* page the elements emitted up to there, tally the label counts of the    *)
(* chart (bias_counts).                                                    *)
(***************************************************************************)
NoTally == [labels |-> <<>>, counts |-> <<>>]

\* lines 160-163: the labels of all findings, in order
RECURSIVE AllBiases(_)
AllBiases(items) ==
    IF items = <<>> THEN <<>>
    ELSE LET types == SplitComma(Get(Head(items), K("tipo"), Text("desconhecido")).v)
         IN  [i \in 1..Len(types) |-> Strip(types[i])] \o AllBiases(Tail(items))

\* line 165, pd.Series(...).value_counts(): each distinct label with the
\* number of its occurrences (labels in order of first occurrence)
RECURSIVE Distinct(_)
Distinct(xs) ==
    IF xs = <<>> THEN <<>>
    ELSE LET rest == Distinct(SubSeq(xs, 1, Len(xs) - 1))
             x == xs[Len(xs)]
         IN  IF \E i \in 1..Len(rest) : rest[i] = x THEN rest ELSE Append(rest, x)

ValueCounts(xs) ==
    LET ls == Distinct(xs)
    IN  [labels |-> ls,
         counts |-> [i \in 1..Len(ls) |->
                        Cardinality({j \in 1..Len(xs) : xs[j] = ls[i]})]]

\* lines 161-162 throw unless every finding is a dict whose tipo is a string
TallyThrows(items) ==
    \E i \in 1..Len(items) :
        \/ ~IsObj(items[i])
        \/ ~IsStr(Get(items[i], K("tipo"), Text("desconhecido")))

\* the same lookup under the name the record's description uses
TipoOfWrongKey(item) == IF HasKey(item, K("type")) THEN Item(item, K("type")) ELSE None

\* line 194: item['tipo'], a KeyError when the key is absent
TipoOf(item) == IF HasKey(item, K("tipo")) THEN Item(item, K("tipo")) ELSE None

\* lines 193-204: the findings one after the other; the first finding
\* without tipo throws and ends the loop
RECURSIVE Findings(_)
Findings(items) ==
    IF items = <<>> THEN [raised |-> FALSE, page |-> <<>>]
    ELSE LET item == Head(items)
             tipo == TipoOf(item)
         IN  IF ~IsStr(tipo) THEN [raised |-> TRUE, page |-> <<>>]
             ELSE LET rest == Findings(Tail(items))
                  IN  [raised |-> rest.raised,
                       page |-> << El("tipo", Str(Capitalize(tipo.v))),
                                   El("trecho", Get(item, K("trecho"), Text("N/A"))),
                                   El("sugestao", Get(item, K("sugestao"), Text("N/A"))),
                                   El("explicacao", Get(item, K("explicacao"), Text("N/A"))) >>
                               \o rest.page]

\* lines 183-213, once the tally is made: the summary, the findings (detail)
\* and the rewritten text
RenderRest(data, head, chart, tally, detail) ==
    IF detail.raised
    THEN [raised |-> TRUE,
          page |-> head \o chart
                   \o << El("resumo", Get(data, K("relatorio_resumo"),
                                          Text("Relatorio nao disponivel."))) >>
                   \o detail.page,
          tally |-> tally]
    ELSE [raised |-> FALSE,
          page |-> head \o chart
                   \o << El("resumo", Get(data, K("relatorio_resumo"),
                                          Text("Relatorio nao disponivel."))) >>
                   \o detail.page
                   \o << El("reescrito", Get(data, K("texto_reescrito"),
                                             Text("Reescrita nao disponivel."))) >>,
          tally |-> tally]

\* lines 157-213 for the analysis_list of line 157
RenderList(data, head, analysis_list) ==
    IF ~Truthy(analysis_list)
    THEN RenderRest(data, head, <<>>, NoTally,
                    [raised |-> FALSE,
                     page |-> << El("info", Text("Nenhum vies significativo detectado")) >>])
    ELSE IF ~IsList(analysis_list) \/ TallyThrows(analysis_list.v)
    THEN [raised |-> TRUE, page |-> head, tally |-> NoTally]
    ELSE RenderRest(data, head, << El("chart", Text("bias_counts")) >>,
                    ValueCounts(AllBiases(analysis_list.v)),
                    Findings(analysis_list.v))

Render(data, classificacao) ==
    IF ~IsObj(data)
    THEN \* line 152: data.get on a list, a string, a number or None
         [raised |-> TRUE, page |-> <<>>, tally |-> NoTally]
    ELSE RenderList(data,
                    << El("metric", Get(data, K("porcentagem_vies"), Text("N/A"))),
                       El("classificacao", Text(classificacao)) >>,
                    Get(data, K("analise"), Lst(<<>>)))

(***************************************************************************)
(* parse_and_display_results(json_str), lines 120-217.  stage is the       *)
(* decode that produced data: 1 the strict decode of the whole text, 2 the *)
(* decode of the extracted braces, 0 none.  searched says whether the      *)
(* regular expression was tried.                                           *)
(***************************************************************************)
\* the same without the messages
ParseFailedSilent(page, searched) ==
    [ret |-> None, stage |-> 0, searched |-> searched, data |-> None,
     raised |-> FALSE, page |-> <<>>, tally |-> NoTally]

\* lines 139-145: the terminal failure, its messages in page
ParseFailed(page, searched) ==
    [ret |-> None, stage |-> 0, searched |-> searched, data |-> None,
     raised |-> FALSE, page |-> page, tally |-> NoTally]

\* lines 148-217 around the report r: the record, or the error and None
Displayed(data, stage, searched, before, r) ==
    [ret |-> IF r.raised THEN None ELSE data,
     stage |-> stage, searched |-> searched, data |-> data,
     raised |-> r.raised,
     page |-> before \o r.page
              \o (IF r.raised
                  THEN << El("error", Text("Ocorreu um erro inesperado ao exibir os resultados")) >>
                  ELSE <<>>),
     tally |-> r.tally]

Display(data, stage, searched, before, classificacao) ==
    Displayed(data, stage, searched, before, Render(data, classificacao))

Warned == << El("warning", Text("Erro ao analisar JSON. Tentando limpar e extrair o JSON do texto...")) >>

\* lines 135-141 (Tentativa 3): second is the decode of the extracted text
Attempt3(json_str, classificacao, second) ==
    IF second.ok THEN Display(second.val, 2, TRUE, Warned, classificacao)
    ELSE ParseFailed(Warned \o << El("error", Text("Erro final ao analisar JSON. A IA gerou um JSON corrompido")),
                                  El("code", Str(json_str)) >>, TRUE)

\* lines 132-145 (Tentativa 2): match is the result of the search
Attempt2(json_str, classificacao, match) ==
    IF match.found THEN Attempt3(json_str, classificacao, JsonLoads(match.group))
    ELSE ParseFailed(Warned \o << El("error", Text("Erro: Nenhum JSON foi encontrado na resposta da IA.")),
                                  El("code", Str(json_str)) >>, TRUE)

\* lines 125-129 (Tentativa 1): first is the decode of the whole text
Attempt1(json_str, classificacao, first) ==
    IF first.ok THEN Display(first.val, 1, FALSE, <<>>, classificacao)
    ELSE Attempt2(json_str, classificacao, SearchBraces(json_str))

parse_and_display_results(json_str, classificacao) ==
    Attempt1(json_str, classificacao, JsonLoads(json_str))

(***************************************************************************)
(* The answers the service may give.                                       *)
(***************************************************************************)
MaxFindings == 2

KV(name, val) == [k |-> K(name), val |-> val]

\* findings: complete ones, one with only its tipo, one without tipo
FGender  == Obj(<< KV("tipo", Text("gender")),
                   KV("trecho", Str(<<"mulher", SP, QUOTE, "honesta", QUOTE>>)),
                   KV("explicacao", Str(<<"estereotipo", SP, LBRACE, "genero", RBRACE>>)),
                   KV("sugestao", Text("mulher")) >>)
FMixed   == Obj(<< KV("tipo", Str(<<"gender", COMMA, SP, "moral">>)),
                   KV("trecho", Text("vadio")),
                   KV("explicacao", Text("juizo")),
                   KV("sugestao", Text("desempregado")) >>)
FPartial == Obj(<< KV("tipo", Text("moral")) >>)
FNoTipo  == Obj(<< KV("trecho", Text("vadio")),
                   KV("explicacao", Text("juizo")),
                   KV("sugestao", Text("desempregado")) >>)
FindingKinds == {FGender, FMixed, FPartial, FNoTipo}

RECURSIVE SeqsUpTo(_, _)
SeqsUpTo(S, n) ==
    IF n = 0 THEN {<<>>}
    ELSE LET shorter == SeqsUpTo(S, n - 1)
         IN  shorter \cup {Append(q, x) : q \in shorter, x \in S}

AnaliseLists == SeqsUpTo(FindingKinds, MaxFindings)

Complete(findings) ==
    Obj(<< KV("porcentagem_vies", Num(45)),
           KV("relatorio_resumo", Text("resumo")),
           KV("analise", Lst(findings)),
           KV("texto_reescrito", Str(<<"texto", NL, "neutro">>)) >>)
OnlyAnalise(findings) == Obj(<< KV("analise", Lst(findings)) >>)

Records ==
    {Complete(f) : f \in AnaliseLists} \cup {OnlyAnalise(f) : f \in AnaliseLists}
    \cup {Obj(<<>>), Obj(<< KV("porcentagem_vies", Num(7)) >>)}

\* what the service puts around the object: nothing, blanks, prose, a code
\* fence, brackets, prose with braces of its own
Wrappers ==
    { << <<>>, <<>> >>,
      << <<NL>>, <<NL>> >>,
      << <<"Here", SP, "you", SP, "go", COLON, SP>>, <<SP, "thanks">> >>,
      << <<"~~~json", NL>>, <<NL, "~~~">> >>,
      << <<>>, <<SP, "thanks">> >>,
      << <<LBRACK>>, <<RBRACK>> >>,
      << <<"see", SP, LBRACE, "note", RBRACE, COLON, SP>>, <<>> >>,
      << <<>>, <<SP, "done", SP, RBRACE>> >> }

Reply(kind, src, prefix, body, suffix) ==
    [kind |-> kind, src |-> src, prefix |-> prefix, suffix |-> suffix,
     text |-> prefix \o body \o suffix]

NoReply == Reply("none", None, <<>>, <<>>, <<>>)
ApiError == Reply("error", None, <<>>, <<>>, <<>>)
ObjectReply(src, w) == Reply("object", src, w[1], Encode(src), w[2])
OtherReply(text) == Reply("other", None, <<>>, text, <<>>)

\* answers that are no wrapped object: JSON that is no object, prose, lone
\* or reversed braces, a cut-off object, unescaped quotes, the empty text
OtherTexts ==
    { <<"4", "5">>, <<"null">>, <<LBRACK, RBRACK>>, EncodeStr(<<"ok">>),
      <<"desculpe">>, <<RBRACE, SP, LBRACE>>, <<LBRACE, QUOTE, "analise">>,
      SubSeq(Encode(Complete(<<FGender>>)), 1, Len(Encode(Complete(<<FGender>>))) - 1),
      EncodeUnescaped(Complete(<<FGender>>)),
      <<>> }

Replies ==
    {ObjectReply(r, w) : r \in Records, w \in Wrappers}
    \cup {OtherReply(x) : x \in OtherTexts}

\* the answers drawn in a session: one of each outcome
SessionReplies ==
    { ObjectReply(Complete(<<FGender>>), << <<>>, <<>> >>),
      ObjectReply(OnlyAnalise(<<FMixed>>), << <<"Here", SP>>, <<SP, "thanks">> >>),
      ObjectReply(Complete(<<FNoTipo>>), << <<>>, <<>> >>),
      ObjectReply(Obj(<<>>), << <<>>, <<>> >>),
      OtherReply(<<"desculpe">>),
      OtherReply(<<>>),
      ApiError }

(***************************************************************************)
(* The uploaded files and extract_text_from_pdf, lines 44-62.              *)
(***************************************************************************)
NoFile == "none"
Pdf(name) ==
    CASE name = "docA"    -> [readable |-> TRUE,
                              pages |-> << <<"autos", SP, "A">>, <<"sentenca">> >>]
      [] name = "docB"    -> [readable |-> TRUE, pages |-> << <<"autos", SP, "B">> >>]
      [] name = "scan"    -> [readable |-> TRUE, pages |-> << <<>>, <<SP>> >>]
      [] name = "corrupt" -> [readable |-> FALSE, pages |-> <<>>]
Files == {"docA", "docB", "scan", "corrupt"}

RECURSIVE PagesText(_)
PagesText(pages) ==
    IF pages = <<>> THEN <<>> ELSE Head(pages) \o <<NL>> \o PagesText(Tail(pages))

\* [text, failed]: the stripped text of all pages; the empty text and an
\* error message when the library throws
extract_text_from_pdf(name) ==
    IF Pdf(name).readable
    THEN [text |-> Str(Strip(PagesText(Pdf(name).pages))), failed |-> FALSE]
    ELSE [text |-> Str(<<>>), failed |-> TRUE]

\* line 246: the options of the selectbox
Classificacoes ==
    <<"Nao Classificado", "Direito Penal", "Familia", "Trabalhista", "Civel",
      "Administrativo", "Outro">>

(***************************************************************************)
(* State.                                                                  *)
(***************************************************************************)
VARIABLES
    parsed_data,             \* st.session_state.parsed_data
    original_text,           \* st.session_state.original_text
    classificacao_tematica,  \* st.session_state.classificacao_tematica
    printing,                \* st.session_state.printing, at the end of the run
    uploaded_file,           \* the file held by the uploader, or NoFile
    GEMINI_AVAILABLE,        \* lines 30-39
    clicked,                 \* the button that triggered the last run
    api_calls,               \* generate_content calls made in the last run
    reply,                   \* what the service answered in the last run
    call,                    \* parse_and_display_results' call of the last run
    page,                    \* the elements the last run emitted
    printing_seen,           \* whether line 291 found the flag set in the last run
    analysed_text            \* the text of the last run that took the analyze branch

vars == <<parsed_data, original_text, classificacao_tematica, printing,
          uploaded_file, GEMINI_AVAILABLE, clicked, api_calls, reply, call,
          page, printing_seen, analysed_text>>

NoCall == [called |-> FALSE, ret |-> None, stage |-> 0, searched |-> FALSE,
           data |-> None, raised |-> FALSE, page |-> <<>>, tally |-> NoTally]

Called(r) == [called |-> TRUE, ret |-> r.ret, stage |-> r.stage,
              searched |-> r.searched, data |-> r.data, raised |-> r.raised,
              page |-> r.page, tally |-> r.tally]

OnPage(pg, w) == \E i \in 1..Len(pg) : pg[i].w = w
Shows(pg, w, body) == \E i \in 1..Len(pg) : pg[i].w = w /\ pg[i].body = body

AnalyzeButton == El("button", Text("Analisar com IA"))
PdfButton     == El("button", Text("Salvar Analise em PDF"))
EmptyWarning  == El("warning", Text("O texto extraido do PDF esta vazio."))
PrintTrigger  == << El("print_css", Text("@media print")),
                    El("print_script", Text("setTimeout(window.print, 1500)")) >>

(***************************************************************************)
(* The pieces of the main script, lines 251-340.                           *)
(***************************************************************************)
\* a text taken as non-empty whatever it holds
HasTextAlways(text) == TRUE

\* line 256: if st.session_state.original_text
HasText(text) == Truthy(text)

\* the record reset on every run, not only under the button
RecordAfterEveryRun(analyze, called, ret, old) == IF called THEN ret ELSE None

\* the record kept when the analysis yields nothing
RecordAfterNoReset(analyze, called, ret, old) ==
    IF analyze /\ called THEN ret ELSE old

\* lines 262-269: parsed_data after the analyze button's branch
RecordAfter(analyze, called, ret, old) ==
    IF analyze THEN (IF called THEN ret ELSE None) ELSE old

\* lines 284-286: the flag after the save button
PrintingAfterButton(pdf, old) == IF pdf THEN TRUE ELSE old

\* the flag left as it is after the trigger
PrintingKept(flag) == flag

\* line 334: the flag after the trigger is emitted
PrintingAfterTrigger(flag) == FALSE

(***************************************************************************)
(* One run of the script with the widget values of that run: the file in   *)
(* the uploader, the selected classification, the button that returns      *)
(* True ("none", "analyze", "pdf") and the answer the service gives if it  *)
(* is called.                                                              *)
(***************************************************************************)
Top ==
    (IF GEMINI_AVAILABLE THEN <<>>
     ELSE << El("error", Text("Erro: A chave GEMINI_API_KEY nao foi encontrada")) >>)
    \o << El("title", Text("DetectaBias")) >>

\* lines 339-340: no file in the uploader
RunNoFile ==
    [parsed_data |-> parsed_data, original_text |-> original_text,
     printing |-> printing, api_calls |-> 0, reply |-> NoReply,
     call |-> NoCall, printing_seen |-> FALSE, analysed_text |-> analysed_text,
     page |-> Top \o << El("info", Text("Envie um arquivo PDF para comecar a analise.")) >>]

ExtractPage(ex) ==
    IF ex.failed THEN << El("error", Text("Erro fatal ao extrair texto do PDF")) >>
    ELSE <<>>

\* lines 337-338: a file whose text is empty
RunEmpty(ex) ==
    [parsed_data |-> parsed_data, original_text |-> ex.text,
     printing |-> printing, api_calls |-> 0, reply |-> NoReply,
     call |-> NoCall, printing_seen |-> FALSE, analysed_text |-> analysed_text,
     page |-> Top \o ExtractPage(ex) \o <<EmptyWarning>>]

\* analyze_with_gemini, lines 64-117: the text returned, or None without a
\* call (line 67) and after an exception (lines 115-117)
analyze_with_gemini(answer) ==
    IF answer.kind \in {"error", "none"} THEN None ELSE Str(answer.text)

\* lines 268-269
Parsed(analyze, analysis_json_str, cls) ==
    IF analyze /\ Truthy(analysis_json_str)
    THEN Called(parse_and_display_results(analysis_json_str.v, cls))
    ELSE NoCall

\* lines 257-269: what a run with text emits before the download section
TextPage(ex, answer, parsed) ==
    Top \o ExtractPage(ex)
    \o << El("success", Text("Texto extraido com sucesso!")),
          El("text_area", ex.text), AnalyzeButton >>
    \o (IF answer.kind = "error"
        THEN << El("error", Text("Erro na chamada da API Gemini")) >> ELSE <<>>)
    \o parsed.page

\* lines 288-334, in the download section: flag is the flag at line 291
RunPrint(button, ex, answer, parsed, record, flag) ==
    [parsed_data |-> record, original_text |-> ex.text,
     printing |-> IF flag THEN PrintingAfterTrigger(flag) ELSE flag,
     api_calls |-> IF answer.kind = "none" THEN 0 ELSE 1,
     reply |-> answer, call |-> parsed, printing_seen |-> flag,
     analysed_text |-> IF button = "analyze" THEN ex.text ELSE analysed_text,
     page |-> TextPage(ex, answer, parsed)
              \o << El("subheader", Text("Salvar Relatorio da Analise")), PdfButton >>
              \o (IF flag THEN PrintTrigger ELSE <<>>)]

\* lines 276-335: record is parsed_data after the analyze branch
RunDownload(button, ex, answer, parsed, record) ==
    IF Truthy(record)
    THEN RunPrint(button, ex, answer, parsed, record,
                  PrintingAfterButton(button = "pdf", printing))
    ELSE [parsed_data |-> record, original_text |-> ex.text,
          printing |-> printing,
          api_calls |-> IF answer.kind = "none" THEN 0 ELSE 1,
          reply |-> answer, call |-> parsed, printing_seen |-> FALSE,
          analysed_text |-> IF button = "analyze" THEN ex.text ELSE analysed_text,
          page |-> TextPage(ex, answer, parsed)]

\* lines 262-269: parsed is the call of parse_and_display_results, if any
RunAnalyzed(button, ex, answer, parsed) ==
    RunDownload(button, ex, answer, parsed,
                RecordAfter(button = "analyze", parsed.called, parsed.ret, parsed_data))

\* lines 256-335: a file with text; answer is what the service gives in
\* this run (NoReply when it is not called)
RunText(cls, button, ex, answer) ==
    RunAnalyzed(button, ex, answer,
                Parsed(button = "analyze", analyze_with_gemini(answer), cls))

\* lines 251-340 for the text extracted from the file
RunFile(cls, button, api, ex) ==
    IF ~HasText(ex.text) THEN RunEmpty(ex)
    ELSE RunText(cls, button, ex,
                 IF button = "analyze" /\ GEMINI_AVAILABLE THEN api ELSE NoReply)

Script(file, cls, button, api) ==
    IF file = NoFile THEN RunNoFile
    ELSE RunFile(cls, button, api, extract_text_from_pdf(file))

\* the state after a run that gave r
Commit(file, cls, button, r) ==
    /\ parsed_data' = r.parsed_data
    /\ original_text' = r.original_text
    /\ classificacao_tematica' = cls
    /\ printing' = r.printing
    /\ uploaded_file' = file
    /\ clicked' = button
    /\ api_calls' = r.api_calls
    /\ reply' = r.reply
    /\ call' = r.call
    /\ page' = r.page
    /\ printing_seen' = r.printing_seen
    /\ analysed_text' = r.analysed_text
    /\ UNCHANGED GEMINI_AVAILABLE

Run(file, cls, button, api) ==
    Commit(file, cls, button, Script(file, cls, button, api))

Options == {Classificacoes[i] : i \in 1..Len(Classificacoes)}

(***************************************************************************)
(* A session: the state after the first run of the script (lines 231-239   *)
(* and the run without a file), then one run per interaction.              *)
(***************************************************************************)
Init ==
    /\ GEMINI_AVAILABLE \in BOOLEAN
    /\ parsed_data = None
    /\ original_text = None
    /\ classificacao_tematica = Classificacoes[1]
    /\ printing = FALSE
    /\ uploaded_file = NoFile
    /\ clicked = "none"
    /\ api_calls = 0
    /\ reply = NoReply
    /\ call = NoCall
    /\ printing_seen = FALSE
    /\ analysed_text = None
    /\ page = (IF GEMINI_AVAILABLE THEN <<>>
               ELSE << El("error", Text("Erro: A chave GEMINI_API_KEY nao foi encontrada")) >>)
              \o << El("title", Text("DetectaBias")),
                    El("info", Text("Envie um arquivo PDF para comecar a analise.")) >>

SelectClassification ==
    \E c \in Options \ {classificacao_tematica} :
        Run(uploaded_file, c, "none", NoReply)

Upload ==
    \E f \in Files \ {uploaded_file} :
        Run(f, classificacao_tematica, "none", NoReply)

RemoveFile ==
    /\ uploaded_file # NoFile
    /\ Run(NoFile, classificacao_tematica, "none", NoReply)

ClickAnalyze ==
    /\ \E i \in 1..Len(page) : page[i] = AnalyzeButton
    /\ \E a \in SessionReplies :
           Run(uploaded_file, classificacao_tematica, "analyze", a)

ClickSavePdf ==
    /\ \E i \in 1..Len(page) : page[i] = PdfButton
    /\ Run(uploaded_file, classificacao_tematica, "pdf", NoReply)

Next == SelectClassification \/ Upload \/ RemoveFile \/ ClickAnalyze \/ ClickSavePdf

Spec == Init /\ [][Next]_vars

(***************************************************************************)
(* parse_and_display_results alone: the state at its call, for every       *)
(* answer and every classification, and the call.                          *)
(***************************************************************************)
ParseInit ==
    /\ GEMINI_AVAILABLE = TRUE
    /\ parsed_data = None
    /\ original_text = None
    /\ classificacao_tematica \in Options
    /\ printing = FALSE
    /\ uploaded_file = NoFile
    /\ clicked = "none"
    /\ api_calls = 0
    /\ reply \in Replies
    /\ call = NoCall
    /\ printing_seen = FALSE
    /\ analysed_text = None
    /\ page = <<>>

ParseCall ==
    /\ ~call.called
    /\ call' = Called(parse_and_display_results(reply.text, classificacao_tematica))
    /\ page' = call'.page
    /\ UNCHANGED <<parsed_data, original_text, classificacao_tematica, printing,
                   uploaded_file, GEMINI_AVAILABLE, clicked, api_calls, reply,
                   printing_seen, analysed_text>>

ParseNext == ParseCall

ParseSpec == ParseInit /\ [][ParseNext]_vars

(***************************************************************************)
(* Properties of parse_and_display_results, under ParseSpec.               *)
(***************************************************************************)
HasAtom(s, a) == \E i \in 1..Len(s) : s[i] = a
AllBlank(s) == \A i \in 1..Len(s) : s[i] \in Whitespace

\* the expected schema of lines 85-103
FindingComplete(f) ==
    /\ IsObj(f)
    /\ \A name \in {"tipo", "trecho", "explicacao", "sugestao"} :
           HasKey(f, K(name)) /\ IsStr(Item(f, K(name)))
SchemaComplete(x) ==
    /\ IsObj(x)
    /\ \A name \in {"porcentagem_vies", "relatorio_resumo", "analise", "texto_reescrito"} :
           HasKey(x, K(name))
    /\ Item(x, K("porcentagem_vies")).t = "num"
    /\ IsStr(Item(x, K("relatorio_resumo")))
    /\ IsStr(Item(x, K("texto_reescrito")))
    /\ IsList(Item(x, K("analise")))
    /\ \A i \in 1..Len(Item(x, K("analise")).v) :
           FindingComplete(Item(x, K("analise")).v[i])

\* the schema with any field absent: what is present has the type asked for
FindingTyped(f) ==
    /\ IsObj(f)
    /\ \A i \in 1..Len(f.v) : IsStr(f.v[i].val)
SchemaTyped(x) ==
    /\ IsObj(x)
    /\ HasKey(x, K("analise")) =>
           /\ IsList(Item(x, K("analise")))
           /\ \A i \in 1..Len(Item(x, K("analise")).v) :
                  FindingTyped(Item(x, K("analise")).v[i])

\* C1: a text that is a JSON object matching the expected schema (blanks
\* around it at most) is decoded by the first, strict attempt; the search
\* for braces is never made, and the record returned is the object.
C1_StrictDecodeReturnsRecord ==
    (/\ call.called
     /\ reply.kind = "object"
     /\ SchemaComplete(reply.src)
     /\ AllBlank(reply.prefix) /\ AllBlank(reply.suffix))
    => (/\ call.stage = 1
        /\ ~call.searched
        /\ ~OnPage(call.page, "warning")
        /\ ~call.raised
        /\ call.ret = reply.src)

C1_Witness ==
    /\ call.called
    /\ reply.src = Complete(<<FGender, FMixed>>)
    /\ reply.text = Encode(reply.src)
    /\ call.stage = 1
    /\ call.ret = reply.src

\* the service's object with text around it that leaves the whole no JSON
WrappedObject ==
    /\ call.called
    /\ reply.kind = "object"
    /\ ~AllBlank(reply.prefix \o reply.suffix)
    /\ ~JsonLoads(reply.text).ok

\* C2 as claimed: whatever the prose around a valid object, the second stage
\* extracts and decodes the object and the function returns it.
C2_AnyWrappingRecovered ==
    WrappedObject
    => (call.stage = 2 /\ call.data = reply.src /\ call.ret = reply.src)

\* C2: when the prose before the object holds no "{" and the prose after it
\* no "}", the strict decode fails, the greedy search extracts exactly the
\* object and its decode succeeds; the function then returns the object,
\* or None when rendering it throws.
C2_BraceFreeWrappingRecovered ==
    (WrappedObject /\ ~HasAtom(reply.prefix, LBRACE) /\ ~HasAtom(reply.suffix, RBRACE))
    => (/\ call.stage = 2
        /\ call.searched
        /\ OnPage(call.page, "warning")
        /\ call.data = reply.src
        /\ call.ret = IF call.raised THEN None ELSE reply.src)

C2_Witness ==
    /\ call.called
    /\ reply.src = Complete(<<FGender>>)
    /\ reply.prefix = <<"Here", SP, "you", SP, "go", COLON, SP>>
    /\ reply.suffix = <<SP, "thanks">>
    /\ call.stage = 2
    /\ call.ret = reply.src

NoBracePair(s) ==
    ~\E i \in 1..Len(s) : \E j \in (i + 1)..Len(s) : s[i] = LBRACE /\ s[j] = RBRACE

\* C3 as claimed: a text without a brace pair ends in an error message and
\* the raw text shown, and None returned.
C3_NoBracesErrorAndRawText ==
    (call.called /\ NoBracePair(reply.text))
    => (/\ call.ret = None
        /\ OnPage(call.page, "error")
        /\ Shows(call.page, "code", Str(reply.text)))

\* C3: a text without a brace pair ends in an error message and None
\* returned; the raw text is shown with the message when the text is no
\* JSON, and not when it is JSON of another kind than an object (a number,
\* a string, a list, null), which fails in the report instead.
C3_NoBracesErrorAndNone ==
    (call.called /\ NoBracePair(reply.text))
    => (/\ call.ret = None
        /\ OnPage(call.page, "error")
        /\ call.stage \in {0, 1}
        /\ call.stage = 0 => Shows(call.page, "code", Str(reply.text))
        /\ call.stage = 1 => call.raised /\ ~OnPage(call.page, "code"))

C3_Witness ==
    /\ call.called
    /\ reply.text = <<"desculpe">>
    /\ call.ret = None
    /\ call.searched
    /\ Shows(call.page, "code", Str(reply.text))

RECURSIVE Sum(_)
Sum(ns) == IF ns = <<>> THEN 0 ELSE Head(ns) + Sum(Tail(ns))

\* the labels of a tipo, stated on its indices: <<i, j>> is a label when
\* t[i..j] holds no comma and a comma or an end of t is on each side
Segments(t) ==
    {p \in (1..(Len(t) + 1)) \X (0..Len(t)) :
        /\ p[1] <= p[2] + 1
        /\ p[1] = 1 \/ t[p[1] - 1] = COMMA
        /\ p[2] = Len(t) \/ t[p[2] + 1] = COMMA
        /\ \A k \in p[1]..p[2] : t[k] # COMMA}

\* t[i..j] without the blanks at its ends
Trimmed(t, p) ==
    LET inked == {k \in p[1]..p[2] : t[k] \notin Whitespace}
    IN  IF inked = {} THEN <<>> ELSE SubSeq(t, SetMin(inked), SetMax(inked))

TipoText(f) == IF HasKey(f, K("tipo")) THEN Item(f, K("tipo")).v ELSE <<"desconhecido">>

\* the occurrences of label l over the findings
Occurrences(findings, l) ==
    Sum([i \in 1..Len(findings) |->
            Cardinality({p \in Segments(TipoText(findings[i])) :
                            Trimmed(TipoText(findings[i]), p) = l})])

CountOf(tally, l) ==
    IF \E i \in 1..Len(tally.labels) : tally.labels[i] = l
    THEN tally.counts[CHOOSE i \in 1..Len(tally.labels) : tally.labels[i] = l]
    ELSE 0

\* C4: the tally counts every comma-separated label of every finding's tipo
\* once, blanks stripped: its total is the number of labels, not of
\* findings, and "gender, moral" adds one to "gender" and one to "moral".
C4_TallySplitsLabels ==
    (call.called /\ call.tally # NoTally)
    => LET findings == Item(call.data, K("analise")).v
       IN  /\ Sum(call.tally.counts)
                = Sum([i \in 1..Len(findings) |->
                          Cardinality(Segments(TipoText(findings[i])))])
           /\ \A l \in {<<"gender">>, <<"moral">>, <<"desconhecido">>,
                        <<"gender", COMMA, SP, "moral">>, <<SP, "moral">>} :
                  CountOf(call.tally, l) = Occurrences(findings, l)
           /\ \A i \in 1..Len(call.tally.labels) :
                  ~HasAtom(call.tally.labels[i], COMMA)

C4_Witness ==
    /\ call.called
    /\ IsObj(call.data)
    /\ Get(call.data, K("analise"), None) = Lst(<<FMixed, FGender>>)
    /\ call.tally = [labels |-> << <<"gender">>, <<"moral">> >>, counts |-> <<2, 1>>]

\* C7 as claimed: an object of the schema with any field absent is rendered
\* with defaults, without a rendering error, and returned.
C7_AbsentFieldsDefaulted ==
    (call.called /\ call.stage # 0 /\ SchemaTyped(call.data))
    => (~call.raised /\ call.ret = call.data)

(***************************************************************************)
(* Properties of the session, under Spec.                                  *)
(***************************************************************************)
\* C5: the service is called at most once in a run, and only in a run
\* triggered by the analyze button with a non-empty text; a run with a file
\* whose text is empty shows the warning, calls nothing and parses nothing.
C5_CallOnlyOnAnalyzeWithText ==
    /\ api_calls <= 1
    /\ api_calls = 1 => (clicked = "analyze" /\ Truthy(original_text))
    /\ (uploaded_file # NoFile /\ ~Truthy(original_text))
       => (/\ \E i \in 1..Len(page) : page[i] = EmptyWarning
           /\ api_calls = 0
           /\ reply = NoReply
           /\ ~call.called
           /\ \A i \in 1..Len(page) : page[i] # AnalyzeButton)

C5_Witness ==
    /\ uploaded_file = "scan"
    /\ original_text = Str(<<>>)
    /\ Truthy(parsed_data)
    /\ \E i \in 1..Len(page) : page[i] = EmptyWarning
    /\ api_calls = 0

\* C6: the print flag is false at the end of every run, so at the start of
\* the next; within a run it is found set exactly when that run was
\* triggered by the save-as-PDF button.
C6_PrintFlagOneRun ==
    /\ printing = FALSE
    /\ printing_seen <=> clicked = "pdf"

C6_Witness ==
    /\ clicked = "pdf"
    /\ printing_seen
    /\ printing = FALSE
    /\ OnPage(page, "print_script")

AnalysisSucceeded ==
    /\ reply.kind \notin {"none", "error"}
    /\ call.called
    /\ call.stage # 0
    /\ ~call.raised

\* C8: after a run triggered by the analyze button the session's record is
\* the record parsed in that run when the call, the parse and the report
\* all succeeded, and None otherwise.
C8_RecordAfterAnalyze ==
    clicked = "analyze"
    => IF AnalysisSucceeded
       THEN /\ parsed_data = call.data
            /\ reply.kind = "object" => parsed_data = reply.src
       ELSE parsed_data = None

C8_Witness ==
    /\ clicked = "analyze"
    /\ reply = ApiError
    /\ api_calls = 1
    /\ parsed_data = None

\* C9 as claimed: a run that emits the print trigger renders the report in
\* the same run, and the session holds a record.
C9_PrintedPageHoldsReport ==
    OnPage(page, "print_script")
    => (/\ Truthy(parsed_data)
        /\ call.called /\ ~call.raised
        /\ OnPage(page, "metric") /\ OnPage(page, "reescrito"))

\* C10 as claimed: a record in the session was produced from the text the
\* session holds as original_text.
C10_RecordOfCurrentText ==
    parsed_data # None => analysed_text = original_text

\* C10: the record changes only in a run triggered by the analyze button,
\* which analyses the text the session holds in that run; every other run
\* (another upload, an empty extraction, a removal) leaves the record of
\* the earlier analysis in the session.
C10_RecordChangesOnlyOnAnalyze ==
    [][/\ clicked' # "analyze"
          => (parsed_data' = parsed_data /\ analysed_text' = analysed_text)
       /\ clicked' = "analyze"
          => (analysed_text' = original_text' /\ Truthy(analysed_text'))]_vars

C10_Witness ==
    /\ Truthy(parsed_data)
    /\ uploaded_file = "docB"
    /\ analysed_text = extract_text_from_pdf("docA").text
    /\ original_text = extract_text_from_pdf("docB").text
    /\ \E i \in 1..Len(page) : page[i] = PdfButton

====
